---------------------------- MODULE Spec2Model ----------------------------
(***************************************************************************)
(* Store Finder API (src/main.py): create_store, list_stores and           *)
(* search_product over the "store" collection, and the haversine distance. *)
(*                                                                         *)
(* Numbers.  Python floats are modelled as fixed-point integers with       *)
(* SCALE units per 1.0 (an angle in radians, a sine, a distance in km, a   *)
(* radius in km are all integers counting 1/SCALE).  Degrees, prices and   *)
(* quantities are plain integers.  All roundings are sign-symmetric, as    *)
(* IEEE-754 round-to-nearest is.                                           *)
(*                                                                         *)
(* Strings.  A string is a sequence of one-character strings.              *)
(***************************************************************************)
EXTENDS Integers, Sequences, FiniteSets, TLC

VARIABLES
    db,       \* the module-level handle imported from database: "up" or "none"
    stores,   \* the "store" collection, in insertion (cursor) order
    op,       \* the last request served and its arguments
    status,   \* how that request ended: "ok", "http400", "http500", "exception"
    results,  \* the rows of that request's response (search_product)
    new_id,   \* the identifier in that request's response (create_store)
    listing,  \* the records of that request's response (list_stores)
    hav       \* the last direct haversine evaluation (SpecHaversine)

vars == <<db, stores, op, status, results, new_id, listing, hav>>

(***************************************************************************)
(* Bounds of the model.                                                    *)
(***************************************************************************)
MaxStores == 2
MaxInv == 2

(***************************************************************************)
(* Fixed-point arithmetic.                                                 *)
(***************************************************************************)
SCALE == 10 ^ 4

Pi == 31416

EarthRadius == 6367

DefaultRadiusKm == 50

Abs(x) == IF x < 0 THEN -x ELSE x

Sgn(x) == IF x < 0 THEN -1 ELSE 1

\* a / b truncated towards zero
TDiv(a, b) == Sgn(a) * (Abs(a) \div b)

\* a / b rounded to nearest, halves away from zero
RDiv(a, b) ==
    LET q == Abs(a) \div b
        r == Abs(a) % b
    IN  Sgn(a) * (IF 2 * r >= b THEN q + 1 ELSE q)

\* the product of two fixed-point numbers
FMul(x, y) == RDiv(x * y, SCALE)

\* math.radians: degrees (an integer) to radians (fixed-point)
radians(d) == RDiv(d * Pi, 180)

\* the alternating Taylor series shared by sin and cos, for |x| <= pi/2
RECURSIVE TrigSeries(_, _, _, _)
TrigSeries(x, term, k, acc) ==
    IF term = 0 THEN acc
    ELSE TrigSeries(x, -TDiv(term * FMul(x, x), SCALE * k * (k + 1)),
                    k + 2, acc + term)

\* math.sin, odd, reduced to [0, pi/2] by sin(pi - y) = sin(y)
sin(x) ==
    LET y == Abs(x)
        z == IF 2 * y > Pi THEN Pi - y ELSE y
    IN  Sgn(x) * TrigSeries(z, z, 2, 0)

\* math.cos, even, reduced to [0, pi/2] by cos(pi - y) = -cos(y)
cos(x) ==
    LET y == Abs(x)
    IN  IF 2 * y > Pi THEN -TrigSeries(Pi - y, SCALE, 1, 0)
        ELSE TrigSeries(y, SCALE, 1, 0)

RECURSIVE SqrtIter(_, _)
SqrtIter(n, g) ==
    LET h == (g + n \div g) \div 2
    IN  IF h >= g THEN g ELSE SqrtIter(n, h)

\* math.sqrt of a fixed-point number in [0, 1]
sqrt(a) == IF a <= 0 THEN 0 ELSE SqrtIter(a * SCALE, a * SCALE)

RECURSIVE AsinSeries(_, _, _, _)
AsinSeries(x, term, k, acc) ==
    IF term = 0 THEN acc
    ELSE AsinSeries(x, TDiv(TDiv(term * FMul(x, x), SCALE) * (2 * k - 1), 2 * k),
                    k + 1, acc + RDiv(term, 2 * k - 1))

\* math.asin on [0, 1]: the power series, and pi/2 - asin(sqrt(1 - s^2))
\* above sin(pi/4)
asin(s) ==
    IF 2 * FMul(s, s) <= SCALE THEN AsinSeries(s, s, 1, 0)
    ELSE LET t == sqrt(SCALE - FMul(s, s))
         IN  RDiv(Pi, 2) - AsinSeries(t, t, 1, 0)

\* The result of a computation that may raise: a number or an exception.
Ok(x) == [ok |-> TRUE, v |-> x]

Raised == [ok |-> FALSE, v |-> 0]

\* (variant: the cosine of the first latitude taken twice)
haversineSameLat(lon1, lat1, lon2, lat2) ==
    LET rlon1 == radians(lon1)
        rlat1 == radians(lat1)
        rlon2 == radians(lon2)
        rlat2 == radians(lat2)
        dlon == rlon2 - rlon1
        dlat == rlat2 - rlat1
        sdlat == sin(RDiv(dlat, 2))
        sdlon == sin(RDiv(dlon, 2))
        a == FMul(sdlat, sdlat)
             + FMul(FMul(cos(rlat1), cos(rlat1)), FMul(sdlon, sdlon))
        r == sqrt(a)
    IN  IF r > SCALE THEN Raised ELSE Ok(EarthRadius * (2 * asin(r)))

\* haversine(lon1, lat1, lon2, lat2) in km; asin raises ValueError ("math
\* domain error") when its argument exceeds 1.
haversine(lon1, lat1, lon2, lat2) ==
    LET rlon1 == radians(lon1)
        rlat1 == radians(lat1)
        rlon2 == radians(lon2)
        rlat2 == radians(lat2)
        dlon == rlon2 - rlon1
        dlat == rlat2 - rlat1
        sdlat == sin(RDiv(dlat, 2))
        sdlon == sin(RDiv(dlon, 2))
        a == FMul(sdlat, sdlat)
             + FMul(FMul(cos(rlat1), cos(rlat2)), FMul(sdlon, sdlon))
        r == sqrt(a)
    IN  IF r > SCALE THEN Raised ELSE Ok(EarthRadius * (2 * asin(r)))

\* round(x, 2) of a distance in km: to the nearest 1/100, halves to even
round2(x) ==
    LET u == SCALE \div 100
        q == x \div u
        r == x % u
    IN  IF 2 * r > u \/ (2 * r = u /\ q % 2 = 1) THEN (q + 1) * u ELSE q * u


(***************************************************************************)
(* Strings: str.lower, the substring test `in`, and the database's         *)
(* case-insensitive $regex search.                                         *)
(***************************************************************************)
\* str.lower on one character
LowerChar(c) == IF c = "A" THEN "a" ELSE IF c = "B" THEN "b" ELSE c

\* str.lower
lower(s) == [i \in 1..Len(s) |-> LowerChar(s[i])]

\* Python's `needle in hay` on strings
Contains(hay, needle) ==
    \E i \in 1..(Len(hay) - Len(needle) + 1) :
        SubSeq(hay, i, i + Len(needle) - 1) = needle

\* The regular expression pat matched against text from position i on:
\* "." is any character, "$" is the end of the text, any other character of
\* the model's alphabet is itself, compared without case (option "i").
RECURSIVE RegexMatchAt(_, _, _)
RegexMatchAt(pat, text, i) ==
    IF pat = <<>> THEN TRUE
    ELSE IF Head(pat) = "$" THEN i = Len(text) + 1 /\ RegexMatchAt(Tail(pat), text, i)
    ELSE /\ i <= Len(text)
         /\ Head(pat) = "." \/ LowerChar(Head(pat)) = LowerChar(text[i])
         /\ RegexMatchAt(Tail(pat), text, i + 1)

\* {"$regex": pat, "$options": "i"}: an unanchored search
RegexSearch(pat, text) == \E i \in 1..(Len(text) + 1) : RegexMatchAt(pat, text, i)

(***************************************************************************)
(* Stored values.  A JSON value that the code expects to be a number is    *)
(* either a number or not one (None, a string).                            *)
(***************************************************************************)
Num(n) == [t |-> "num", v |-> n]

NotNum == [t |-> "none", v |-> 0]

IsNum(x) == x.t = "num"

\* a list value, or a value that is no list
List(items) == [list |-> TRUE, items |-> items]

NoList == [list |-> FALSE, items |-> <<>>]

\* str(ObjectId)
StrOfId(oid) == [str |-> oid]

(***************************************************************************)
(* The inventory matcher of search_product.                                *)
(***************************************************************************)
\* the database filter {"inventory": {"$elemMatch": ...}}: some inventory
\* element has a title the regular expression q finds and a quantity > 0
ElemMatch(s, q) ==
    \E i \in 1..Len(s.inventory) :
        /\ RegexSearch(q, s.inventory[i].product_title)
        /\ s.inventory[i].quantity > 0

\* (variant: the quantity is not looked at)
MatchesAnyStock(item, q) == Contains(lower(item.product_title), lower(q))

\* the in-memory predicate of the list comprehension
Matches(item, q) ==
    /\ Contains(lower(item.product_title), lower(q))
    /\ item.quantity > 0

\* the order of two sort keys (tuples of numbers of one length), as Python
\* compares tuples
RECURSIVE KeyLess(_, _)
KeyLess(k1, k2) ==
    IF k1 = <<>> THEN FALSE
    ELSE \/ Head(k1) < Head(k2)
         \/ Head(k1) = Head(k2) /\ KeyLess(Tail(k1), Tail(k2))

\* list.sort / sorted on decorated elements [key, val]: stable, as repeated
\* insertion behind the elements whose key is not larger
RECURSIVE InsertStable(_, _)
InsertStable(sorted, x) ==
    IF sorted = <<>> THEN <<x>>
    ELSE IF KeyLess(x.key, Head(sorted).key)
         THEN <<x>> \o sorted
         ELSE <<Head(sorted)>> \o InsertStable(Tail(sorted), x)

RECURSIVE SortDecorated(_)
SortDecorated(seq) ==
    IF seq = <<>> THEN <<>>
    ELSE InsertStable(SortDecorated(SubSeq(seq, 1, Len(seq) - 1)), seq[Len(seq)])

\* the elements of a sorted decorated list
Undecorate(seq) == [i \in 1..Len(seq) |-> seq[i].val]

\* key=lambda x: x.get("price", 0)
PriceKey(x) == <<x.price.v>>

\* matches = [item for item in inventory if ...]
MatchList(s, q) == SelectSeq(s.inventory, LAMBDA item : Matches(item, q))

\* sorted(matches, key=lambda x: x.get("price", 0))
SortedByPrice(matches) ==
    Undecorate(SortDecorated(
        [i \in 1..Len(matches) |-> [key |-> PriceKey(matches[i]), val |-> matches[i]]]))

\* (variant: of several cheapest entries the last one)
BestLastOfCheapest(matches) ==
    SortedByPrice([i \in 1..Len(matches) |-> matches[Len(matches) + 1 - i]])[1]

\* best = sorted(matches, key=price)[0]
Best(matches) == SortedByPrice(matches)[1]

(***************************************************************************)
(* search_product: the scan of the cursor.                                 *)
(***************************************************************************)
\* (variant: the rounded distance is tested)
WithinRadiusRounded(distance, radius_km) == round2(distance) <= radius_km

\* the radius test of the scan: distance <= radius_km
WithinRadius(distance, radius_km) == distance <= radius_km

Row(s, distance, best) ==
    [store_id |-> StrOfId(s._id),
     store_name |-> s.name,
     address |-> s.address,
     distance_km |-> round2(distance),
     product_title |-> best.product_title,
     price |-> best.price.v,
     quantity |-> best.quantity]

\* One pass of the loop body on store s: "skip" (continue), "raise" (an
\* exception leaves the handler) or "row".
ScanStore(s, q, lat, lng, radius_km) ==
    LET coords == s.location.coordinates
    IN  IF ~coords.list \/ Len(coords.items) # 2
        THEN [kind |-> "skip"]
        ELSE IF ~IsNum(coords.items[1]) \/ ~IsNum(coords.items[2])
        THEN [kind |-> "raise"]
        ELSE LET distance == haversine(lng, lat, coords.items[1].v, coords.items[2].v)
                 matches == MatchList(s, q)
             IN  IF ~distance.ok THEN [kind |-> "raise"]
                 ELSE IF ~WithinRadius(distance.v, radius_km) THEN [kind |-> "skip"]
                 ELSE IF matches = <<>> THEN [kind |-> "skip"]
                 ELSE IF \E i \in 1..Len(matches) : ~IsNum(matches[i].price)
                 THEN [kind |-> "raise"]
                 ELSE [kind |-> "row", row |-> Row(s, distance.v, Best(matches))]

\* the for loop over the cursor: the rows appended, or an exception
RECURSIVE Scan(_, _, _, _, _)
Scan(cursor, q, lat, lng, radius_km) ==
    IF cursor = <<>> THEN [ok |-> TRUE, rows |-> <<>>]
    ELSE LET first == ScanStore(Head(cursor), q, lat, lng, radius_km)
             rest == Scan(Tail(cursor), q, lat, lng, radius_km)
         IN  IF first.kind = "raise" THEN [ok |-> FALSE, rows |-> <<>>]
             ELSE IF ~rest.ok THEN rest
             ELSE IF first.kind = "skip" THEN rest
             ELSE [ok |-> TRUE, rows |-> <<first.row>> \o rest.rows]

\* (variant: the price before the distance)
RowKeyPriceFirst(r) == <<r.price, r.distance_km>>

\* key=lambda r: (r.distance_km, r.price)
RowKey(r) == <<r.distance_km, r.price>>

\* results.sort(key=lambda r: (r.distance_km, r.price))
SortedRows(rows) ==
    Undecorate(SortDecorated(
        [i \in 1..Len(rows) |-> [key |-> RowKey(rows[i]), val |-> rows[i]]]))

\* db["store"].find({"inventory": {"$elemMatch": ...}})
Find(q) == SelectSeq(stores, LAMBDA s : ElemMatch(s, q))

\* what search_product returns with the database available
SearchOutcome(q, lat, lng, radius_km) ==
    LET scanned == Scan(Find(q), q, lat, lng, radius_km)
    IN  IF scanned.ok
        THEN [status |-> "ok", rows |-> SortedRows(scanned.rows)]
        ELSE [status |-> "exception", rows |-> <<>>]

(***************************************************************************)
(* The request handlers.                                                   *)
(***************************************************************************)
NoId == StrOfId(0)

\* (variant: the number of coordinates is not checked)
ValidLocationAnyLength(loc) ==
    /\ loc.type = "Point"
    /\ loc.coordinates.list

\* create_store's "Basic validation for GeoJSON point"
ValidLocation(loc) ==
    /\ loc.type = "Point"
    /\ loc.coordinates.list
    /\ Len(loc.coordinates.items) = 2

\* database.create_document("store", store): the record as stored, under a
\* newly assigned identifier
create_document(store) ==
    [_id |-> Len(stores) + 1,
     name |-> store.name,
     address |-> store.address,
     city |-> store.city,
     country |-> store.country,
     location |-> store.location,
     inventory |-> store.inventory]

\* POST /api/stores
CreateStore(store) ==
    /\ op' = [name |-> "create_store", store |-> store]
    /\ IF db = "none"
       THEN /\ status' = "http500"
            /\ new_id' = NoId
            /\ UNCHANGED stores
       ELSE IF ~ValidLocation(store.location)
       THEN /\ status' = "http400"
            /\ new_id' = NoId
            /\ UNCHANGED stores
       ELSE /\ Len(stores) < MaxStores
            /\ stores' = Append(stores, create_document(store))
            /\ status' = "ok"
            /\ new_id' = StrOfId(create_document(store)._id)
    /\ results' = <<>>
    /\ listing' = <<>>
    /\ UNCHANGED <<db, hav>>

\* database.get_documents("store"): every record of the collection
get_documents == stores

\* s["id"] = str(s.get("_id")); s.pop("_id", None)
Listed(s) ==
    [id |-> StrOfId(s._id),
     name |-> s.name,
     address |-> s.address,
     city |-> s.city,
     country |-> s.country,
     location |-> s.location,
     inventory |-> s.inventory]

\* GET /api/stores
ListStores ==
    /\ op' = [name |-> "list_stores"]
    /\ IF db = "none"
       THEN /\ status' = "http500"
            /\ listing' = <<>>
       ELSE /\ status' = "ok"
            /\ listing' = [i \in 1..Len(get_documents) |-> Listed(get_documents[i])]
    /\ results' = <<>>
    /\ new_id' = NoId
    /\ UNCHANGED <<db, stores, hav>>

\* (variant: a search takes one unit of stock from every entry of the stores
\* it returns)
SearchProductDecrement(q, lat, lng, radius_km) ==
    /\ op' = [name |-> "search_product", q |-> q, lat |-> lat, lng |-> lng,
              radius_km |-> radius_km]
    /\ IF db = "none"
       THEN /\ status' = "http500"
            /\ results' = <<>>
            /\ UNCHANGED stores
       ELSE LET out == SearchOutcome(q, lat, lng, radius_km)
            IN  /\ status' = out.status
                /\ results' = out.rows
                /\ stores' = [i \in 1..Len(stores) |->
                                IF \E j \in 1..Len(out.rows) :
                                       out.rows[j].store_id = StrOfId(stores[i]._id)
                                THEN [stores[i] EXCEPT !.inventory =
                                        [k \in 1..Len(@) |->
                                            [@[k] EXCEPT !.quantity =
                                                IF @ > 0 THEN @ - 1 ELSE @]]]
                                ELSE stores[i]]
    /\ new_id' = NoId
    /\ listing' = <<>>
    /\ UNCHANGED <<db, hav>>

\* GET /api/search
SearchProduct(q, lat, lng, radius_km) ==
    /\ op' = [name |-> "search_product", q |-> q, lat |-> lat, lng |-> lng,
              radius_km |-> radius_km]
    /\ IF db = "none"
       THEN /\ status' = "http500"
            /\ results' = <<>>
       ELSE LET out == SearchOutcome(q, lat, lng, radius_km)
            IN  /\ status' = out.status
                /\ results' = out.rows
    /\ new_id' = NoId
    /\ listing' = <<>>
    /\ UNCHANGED <<db, stores, hav>>

\* a direct evaluation of haversine between two points <<lon, lat>>, both ways
HaversineCall(a, b) ==
    /\ ~hav.called
    /\ hav' = [called |-> TRUE, a |-> a, b |-> b,
               ab |-> haversine(a[1], a[2], b[1], b[2]),
               ba |-> haversine(b[1], b[2], a[1], a[2])]
    /\ UNCHANGED <<db, stores, op, status, results, new_id, listing>>

(***************************************************************************)
(* The initial state: the process has started, the handle db is set or     *)
(* None, the collection is empty, no request has been served.              *)
(***************************************************************************)
Init ==
    /\ db \in {"up", "none"}
    /\ stores = <<>>
    /\ op = [name |-> "start"]
    /\ status = "ok"
    /\ results = <<>>
    /\ new_id = NoId
    /\ listing = <<>>
    /\ hav = [called |-> FALSE]

(***************************************************************************)
(* Request inputs.                                                         *)
(***************************************************************************)
Point(lng, lat) == [type |-> "Point", coordinates |-> List(<<Num(lng), Num(lat)>>)]

Payload(location, inventory) ==
    [name |-> "S", address |-> "1 Main St", city |-> "C", country |-> "X",
     location |-> location, inventory |-> inventory]

Entry(title, quantity, price) ==
    [product_title |-> title, quantity |-> quantity, price |-> price]

SeqsUpTo(S, n) == UNION {[1..k -> S] : k \in 0..n}

\* the user's position <<lng, lat>> in every search of the model
UserPoint == <<0, 0>>

\* Spec: locations of every shape create_store may be sent, small inventories
GeoLocations ==
    {Point(0, 0), Point(10, 0), Point(0, 10),
     [type |-> "Point", coordinates |-> List(<<NotNum, Num(0)>>)]}
    \cup {[type |-> "Polygon", coordinates |-> List(<<Num(0), Num(0)>>)],
          [type |-> "Point", coordinates |-> List(<<Num(0)>>)],
          [type |-> "Point", coordinates |-> List(<<Num(0), Num(0), Num(0)>>)],
          [type |-> "Point", coordinates |-> NoList]}

GeoEntries ==
    {Entry(<<"A", "b">>, 1, Num(1)), Entry(<<"A", "b">>, 1, Num(2)),
     Entry(<<"A", "b">>, 1, NotNum)}

GeoPayloads == {Payload(l, <<e>>) : l \in GeoLocations, e \in GeoEntries}

GeoQueries == {<<"a">>, <<"$">>}

\* the distance from the user to the stores 10 degrees away
FarKm == haversine(UserPoint[1], UserPoint[2], 10, 0).v

GeoRadii == {DefaultRadiusKm * SCALE, round2(FarKm), FarKm}

Next ==
    \/ \E store \in GeoPayloads : CreateStore(store)
    \/ ListStores
    \/ \E q \in GeoQueries, radius_km \in GeoRadii :
           SearchProduct(q, UserPoint[2], UserPoint[1], radius_km)

Spec == Init /\ [][Next]_vars

\* SpecMatch: stores at the user's position, inventories of every content
MatchEntries ==
    {Entry(<<"A", "b">>, 2, Num(2)), Entry(<<"a", "$">>, 1, Num(2)),
     Entry(<<"A", "b">>, 0, Num(1)), Entry(<<"b">>, 3, Num(1))}

MatchPayloads == {Payload(Point(0, 0), inv) : inv \in SeqsUpTo(MatchEntries, MaxInv)}

MatchQueries == {<<>>, <<"a">>, <<"B">>, <<"a", "$">>, <<".">>}

NextMatch ==
    \/ \E store \in MatchPayloads : CreateStore(store)
    \/ ListStores
    \/ \E q \in MatchQueries :
           SearchProduct(q, UserPoint[2], UserPoint[1], DefaultRadiusKm * SCALE)

SpecMatch == Init /\ [][NextMatch]_vars

\* SpecHaversine: haversine alone, on a grid of points <<lon, lat>>
HavLons == {-180, -90, -30, 0, 30, 90, 180}

HavLats == {-90, -30, 0, 30, 90}

NextHaversine == \E a, b \in HavLons \X HavLats : HaversineCall(a, b)

SpecHaversine == Init /\ [][NextHaversine]_vars

(***************************************************************************)
(* Vocabulary of the properties below.                                     *)
(***************************************************************************)
\* the last request was a search that returned a result sequence
Searched == op.name = "search_product" /\ status = "ok"

\* the position in the collection of the store a row names
StoreIndex(row) ==
    CHOOSE i \in 1..Len(stores) : StrOfId(stores[i]._id) = row.store_id

HasRow(i) ==
    \E j \in 1..Len(results) : results[j].store_id = StrOfId(stores[i]._id)

\* the store's coordinates are a pair of numbers
WellFormed(s) ==
    /\ s.location.coordinates.list
    /\ Len(s.location.coordinates.items) = 2
    /\ \A k \in 1..2 : s.location.coordinates.items[k].t = "num"

\* the computed (unrounded) distance from the last search's user to store s
DistanceTo(s) ==
    haversine(op.lng, op.lat, s.location.coordinates.items[1].v,
              s.location.coordinates.items[2].v).v

\* entry e is in stock and its title contains q, case-insensitively
InStockSubstring(e, q) ==
    /\ e.quantity > 0
    /\ \E a \in 0..Len(e.product_title), b \in 0..Len(e.product_title) :
          /\ a + Len(q) = b
          /\ \A k \in 1..Len(q) :
                LowerChar(e.product_title[a + k]) = LowerChar(q[k])

\* row reports entry e
Reports(row, e) ==
    /\ row.product_title = e.product_title
    /\ e.price.t = "num" /\ row.price = e.price.v
    /\ row.quantity = e.quantity

(***************************************************************************)
(* C1.  Every row search_product returns comes from one entry of its own   *)
(* store's inventory, in stock (quantity > 0) and with a title containing  *)
(* q case-insensitively; and no store has two rows.                        *)
(***************************************************************************)
C1_RowsBacked ==
    op.name = "search_product" =>
        /\ \A j \in 1..Len(results) :
              \E i \in 1..Len(stores) :
                  /\ results[j].store_id = StrOfId(stores[i]._id)
                  /\ \E k \in 1..Len(stores[i].inventory) :
                        /\ Reports(results[j], stores[i].inventory[k])
                        /\ InStockSubstring(stores[i].inventory[k], op.q)
        /\ \A j1, j2 \in 1..Len(results) :
              results[j1].store_id = results[j2].store_id => j1 = j2

\* two stores have rows, one of them with two matched entries and a cheaper
\* entry that is out of stock
C1_Witness ==
    /\ Searched
    /\ Len(results) = 2
    /\ \E i \in 1..Len(stores) :
          /\ HasRow(i)
          /\ Len(stores[i].inventory) = 2
          /\ \E k \in 1..2 : stores[i].inventory[k].quantity = 0
          /\ \E k \in 1..2 : InStockSubstring(stores[i].inventory[k], op.q)

(***************************************************************************)
(* C2.  Every store with a pair of numeric coordinates, at distance        *)
(* <= radius_km, and with an in-stock entry whose title contains q         *)
(* case-insensitively has a row in the result, for every q: the database   *)
(* filter drops no store the in-memory check accepts.                      *)
(***************************************************************************)
C2_PrefilterComplete ==
    Searched =>
        \A i \in 1..Len(stores) :
            ( /\ WellFormed(stores[i])
              /\ DistanceTo(stores[i]) <= op.radius_km
              /\ \E k \in 1..Len(stores[i].inventory) :
                    /\ InStockSubstring(stores[i].inventory[k], op.q)
                    /\ stores[i].inventory[k].price.t = "num" )
            => HasRow(i)

(***************************************************************************)
(* C3.  The entry a row reports is a matched entry (in stock, title        *)
(* contains q) of minimum price among its store's matched entries, and     *)
(* among those of minimum price the first in inventory order.              *)
(***************************************************************************)
C3_CheapestFirst ==
    Searched =>
        \A j \in 1..Len(results) :
            LET inv == stores[StoreIndex(results[j])].inventory
                matched == {k \in 1..Len(inv) : InStockSubstring(inv[k], op.q)}
                cheapest == {k \in matched :
                                \A m \in matched : inv[k].price.v <= inv[m].price.v}
            IN  /\ cheapest # {}
                /\ \E k \in cheapest :
                      /\ \A m \in cheapest : k <= m
                      /\ Reports(results[j], inv[k])

\* one store's row is decided by the tie-break (two different matched
\* entries of one price), another's by the price (the cheaper entry second)
C3_Witness ==
    /\ Searched
    /\ \E i \in 1..Len(stores) :
          /\ HasRow(i)
          /\ Len(stores[i].inventory) = 2
          /\ \A k \in 1..2 : InStockSubstring(stores[i].inventory[k], op.q)
          /\ stores[i].inventory[1].price = stores[i].inventory[2].price
          /\ stores[i].inventory[1] # stores[i].inventory[2]
    /\ \E i \in 1..Len(stores) :
          /\ HasRow(i)
          /\ Len(stores[i].inventory) = 2
          /\ \A k \in 1..2 : InStockSubstring(stores[i].inventory[k], op.q)
          /\ stores[i].inventory[2].price.v < stores[i].inventory[1].price.v

(***************************************************************************)
(* C4.  The radius filter is inclusive and works on the computed, not yet  *)
(* rounded, distance: no row belongs to a store whose computed distance    *)
(* exceeds radius_km (even when that distance rounded to 2 decimals equals *)
(* radius_km), and among the stores the search matched, with well-formed   *)
(* coordinates, every one at distance <= radius_km (in particular exactly  *)
(* radius_km) has a row.                                                   *)
(***************************************************************************)
C4_RadiusInclusiveUnrounded ==
    Searched =>
        /\ \A j \in 1..Len(results) :
              DistanceTo(stores[StoreIndex(results[j])]) <= op.radius_km
        /\ \A i \in 1..Len(stores) :
              ( /\ WellFormed(stores[i])
                /\ ElemMatch(stores[i], op.q)
                /\ \E k \in 1..Len(stores[i].inventory) :
                      InStockSubstring(stores[i].inventory[k], op.q)
                /\ DistanceTo(stores[i]) <= op.radius_km )
              => HasRow(i)

\* a matched store at exactly radius_km has a row
C4_Witness ==
    /\ Searched
    /\ \E i \in 1..Len(stores) :
          /\ WellFormed(stores[i])
          /\ DistanceTo(stores[i]) = op.radius_km
          /\ op.radius_km > 0
          /\ HasRow(i)

\* a matched store just beyond radius_km, whose distance rounds to
\* radius_km, has no row, while a nearer store has one
C4_WitnessRounded ==
    /\ Searched
    /\ Len(results) = 1
    /\ \E i \in 1..Len(stores) :
          /\ WellFormed(stores[i])
          /\ ElemMatch(stores[i], op.q)
          /\ DistanceTo(stores[i]) > op.radius_km
          /\ round2(DistanceTo(stores[i])) = op.radius_km
          /\ ~HasRow(i)

(***************************************************************************)
(* C5.  The rows are in ascending order of (distance_km, price): of two    *)
(* consecutive rows the earlier has the smaller distance_km, or the same   *)
(* distance_km and a price not larger; rows equal in both keep the order   *)
(* in which the scan met their stores.                                     *)
(***************************************************************************)
C5_SortedStable ==
    op.name = "search_product" =>
        \A j \in 1..(Len(results) - 1) :
            LET x == results[j]
                y == results[j + 1]
            IN  \/ x.distance_km < y.distance_km
                \/ x.distance_km = y.distance_km /\ x.price < y.price
                \/ /\ x.distance_km = y.distance_km
                   /\ x.price = y.price
                   /\ StoreIndex(x) < StoreIndex(y)

\* the sort moved the second store in front of the first: same distance,
\* lower price
C5_Witness ==
    /\ Searched
    /\ Len(results) = 2
    /\ StoreIndex(results[1]) = 2
    /\ StoreIndex(results[2]) = 1
    /\ results[1].distance_km = results[2].distance_km
    /\ results[1].distance_km > 0
    /\ results[1].price < results[2].price

\* distance dominates price: the nearer store first, although dearer
C5_WitnessDistanceFirst ==
    /\ Searched
    /\ Len(results) = 2
    /\ results[1].distance_km < results[2].distance_km
    /\ results[1].price > results[2].price

(***************************************************************************)
(* C6.  A store whose coordinates are absent or are not exactly two        *)
(* numbers is skipped silently: with such a store in the collection a      *)
(* search raises no error, returns no row for it, and still returns every  *)
(* other qualifying store.                                                 *)
(***************************************************************************)
C6_MalformedSkipped ==
    ( /\ op.name = "search_product"
      /\ db = "up"
      /\ \E i \in 1..Len(stores) : ~WellFormed(stores[i]) )
    => /\ status = "ok"
       /\ \A i \in 1..Len(stores) : ~WellFormed(stores[i]) => ~HasRow(i)
       /\ \A i \in 1..Len(stores) :
             ( /\ WellFormed(stores[i])
               /\ ElemMatch(stores[i], op.q)
               /\ \E k \in 1..Len(stores[i].inventory) :
                     /\ InStockSubstring(stores[i].inventory[k], op.q)
                     /\ stores[i].inventory[k].price.t = "num"
               /\ DistanceTo(stores[i]) <= op.radius_km )
             => HasRow(i)

(***************************************************************************)
(* C7.  With the repository available, a search over records that          *)
(* create_store accepted always completes with a result sequence: it never *)
(* fails, whatever the stored coordinates and inventories are.             *)
(***************************************************************************)
C7_SearchNeverFails ==
    (op.name = "search_product" /\ db = "up") => status = "ok"

(***************************************************************************)
(* C8.  create_store and the location it is sent.                          *)
(***************************************************************************)
\* the location is tagged "Point" and its coordinates are a list of two
IsPointPair(loc) ==
    /\ loc.type = "Point"
    /\ loc.coordinates.list
    /\ Len(loc.coordinates.items) = 2

\* the step inserted exactly one record, the request's, under a new
\* identifier, and returned that identifier
InsertedOne ==
    /\ Len(stores') = Len(stores) + 1
    /\ SubSeq(stores', 1, Len(stores)) = stores
    /\ LET added == stores'[Len(stores')]
       IN  /\ \A i \in 1..Len(stores) : stores[i]._id # added._id
           /\ added.location = op'.store.location
           /\ added.inventory = op'.store.inventory
           /\ added.name = op'.store.name
           /\ new_id' = StrOfId(added._id)
           /\ status' = "ok"

\* C8 as claimed: an invalid location is always rejected with the
\* client-input error and nothing is inserted; a valid one, with the
\* repository available, inserts exactly one record and returns its new
\* identifier.
C8_AsClaimed ==
    [][op'.name = "create_store" =>
          IF ~IsPointPair(op'.store.location)
          THEN status' = "http400" /\ stores' = stores
          ELSE db = "up" => InsertedOne]_vars

\* C8 amended: with the repository available, an invalid location is
\* rejected with the client-input error and nothing is inserted, and a valid
\* one inserts exactly one record and returns its new identifier; with the
\* repository unavailable every create_store fails with the configuration
\* error, whatever the location, and nothing is inserted.
C8_Amended ==
    [][op'.name = "create_store" =>
          IF db = "none"
          THEN status' = "http500" /\ stores' = stores
          ELSE IF ~IsPointPair(op'.store.location)
          THEN status' = "http400" /\ stores' = stores
          ELSE InsertedOne]_vars

\* a location of three components was rejected, after a store was inserted
C8_Witness ==
    /\ op.name = "create_store"
    /\ status = "http400"
    /\ op.store.location.type = "Point"
    /\ Len(op.store.location.coordinates.items) = 3
    /\ Len(stores) = 1

(***************************************************************************)
(* C9.  A search step leaves the store collection as it was: no record     *)
(* and no inventory entry is inserted, removed or modified, in any         *)
(* interleaving of the three requests.                                     *)
(***************************************************************************)
C9_SearchReadsOnly ==
    [][op'.name = "search_product" => stores' = stores]_vars

\* a search returned rows over a collection of two stores
C9_Witness ==
    /\ Searched
    /\ Len(stores) = 2
    /\ Len(results) >= 1

(***************************************************************************)
(* C10.  haversine is symmetric in its two points, and is 0 when they are  *)
(* the same point.                                                         *)
(***************************************************************************)
C10_Symmetric ==
    hav.called =>
        /\ hav.ab = hav.ba
        /\ hav.a = hav.b => hav.ab = Ok(0)
        /\ hav.ab.ok

\* two points of different longitude and latitude, a positive distance
C10_Witness ==
    /\ hav.called
    /\ hav.a[1] # hav.b[1]
    /\ Abs(hav.a[2]) # Abs(hav.b[2])
    /\ hav.ab.ok
    /\ hav.ab.v > 0

=============================================================================
